---------------------------- MODULE Spec2Model ----------------------------
(***************************************************************************)
(* The EVA pipeline of pyextremes (src/pyextremes/eva.py): one EVA object, *)
(* its seven attributes, and the public operations that read or write      *)
(* them.  Durations and timestamps are integers counted in ticks of 72     *)
(* seconds, the largest unit in which '1Y' (365.2425 days), '30D' and      *)
(* '24H' are all whole numbers.  Floating point quotients are kept as      *)
(* exact fractions in lowest terms.                                        *)
(***************************************************************************)
EXTENDS Integers, Sequences, FiniteSets, TLC

VARIABLES
    data,                  \* self.data
    extremes,              \* self.extremes
    extremes_method,       \* self.extremes_method
    extremes_type,         \* self.extremes_type
    extremes_kwargs,       \* self.extremes_kwargs
    extremes_transformer,  \* self.extremes_transformer
    model,                 \* self.model
    model_kwargs,          \* self.model_kwargs
    last                   \* the latest public call: arguments, outcome, collaborators invoked

vars == <<data, extremes, extremes_method, extremes_type, extremes_kwargs,
          extremes_transformer, model, model_kwargs, last>>

-----------------------------------------------------------------------------
(* Python values.  Every value is a record tagged by its Python type.      *)

None == [ty |-> "None"]
Str(s) == [ty |-> "str", s |-> s]
Timedelta(n) == [ty |-> "Timedelta", n |-> n]
PyInt(n) == [ty |-> "int", n |-> n]
PyFloat(f) == [ty |-> "float", p |-> f]
NdArray(items) == [ty |-> "ndarray", items |-> items]
PyList(items) == [ty |-> "list", items |-> items]
Series(rows) == [ty |-> "Series", rows |-> rows]
Dict(kw) == [ty |-> "dict", kw |-> kw]
NoKwargs == Dict([k \in {} |-> None])
Has(kwargs, key) == key \in DOMAIN kwargs.kw

(* Exceptions: the class raised and what its message names: the method    *)
(* the caller is told to use, or the values allowed ("" when it names      *)
(* nothing).                                                               *)
NoError == [kind |-> "none", step |-> ""]
Raise(kind, step) == [kind |-> kind, step |-> step]

(* Exact fractions num/den in lowest terms, den > 0, num >= 0.             *)
RECURSIVE GCD(_, _)
GCD(a, b) == IF b = 0 THEN a ELSE GCD(b, a % b)
Frac(n, d) == LET g == GCD(n, d) IN [num |-> n \div g, den |-> d \div g]
FracDiv(a, b) == Frac(a.num * b.den, a.den * b.num)
One == Frac(1, 1)

-----------------------------------------------------------------------------
(* pandas                                                                  *)

(* pd.to_timedelta / pd.Timedelta on text: the ticks of the duration, or   *)
(* -1 for text that names no duration (pandas raises ValueError).          *)
to_timedelta(s) ==
    CASE s = "1Y"  -> 438291
      [] s = "30D" -> 36000
      [] s = "24H" -> 1200
      [] OTHER     -> -1

(* a / b where one operand is a Timedelta and the other a Timedelta or     *)
(* text: Timedelta.__truediv__ and Timedelta.__rtruediv__ convert text     *)
(* with Timedelta(text) and return a Python float.  Text divided by text   *)
(* is a TypeError.  The divisors met here are never zero durations.        *)
Ticks(d) == IF d.ty = "Timedelta" THEN d.n ELSE to_timedelta(d.s)
TimedeltaDiv(a, b) ==
    IF a.ty = "str" /\ b.ty = "str"
    THEN [raised |-> Raise("TypeError", ""), value |-> One]
    ELSE IF Ticks(a) < 0 \/ Ticks(b) <= 0
    THEN [raised |-> Raise("ValueError", ""), value |-> One]
    ELSE [raised |-> NoError, value |-> Frac(Ticks(a), Ticks(b))]

(* Series.sort_index(ascending=True): a stable insertion sort on t.        *)
RECURSIVE InsertRow(_, _)
InsertRow(row, sorted) ==
    IF sorted = <<>> THEN <<row>>
    ELSE IF row.t < Head(sorted).t THEN <<row>> \o sorted
    ELSE <<Head(sorted)>> \o InsertRow(row, Tail(sorted))
RECURSIVE sort_index(_)
sort_index(rows) ==
    IF rows = <<>> THEN <<>>
    ELSE InsertRow(rows[Len(rows)], sort_index(SubSeq(rows, 1, Len(rows) - 1)))

(* Series.dropna()                                                         *)
dropna(rows) == SelectSeq(rows, LAMBDA r : ~r.na)

(* An index never found out of order.                                      *)
NeverOutOfOrder(rows) == TRUE

(* Index.is_monotonic_increasing: each timestamp >= the one before.        *)
is_monotonic_increasing(rows) ==
    \A i \in 1..(Len(rows) - 1) : rows[i].t <= rows[i + 1].t

-----------------------------------------------------------------------------
(* EVA.__init__ on a valid Series: the stored copy of the signal.          *)
EVA_init_data(raw) ==
    LET copied == raw
        sorted == IF ~is_monotonic_increasing(raw) THEN sort_index(copied) ELSE copied
    IN  IF \E i \in 1..Len(raw) : raw[i].na THEN dropna(sorted) ELSE sorted

-----------------------------------------------------------------------------
(* Collaborators imported by eva.py (pyextremes.extremes, pyextremes.models).*)

RECURSIVE RowsAt(_, _, _)
RowsAt(rows, keep, i) ==
    IF i > Len(rows) THEN <<>>
    ELSE (IF i \in keep THEN <<rows[i]>> ELSE <<>>) \o RowsAt(rows, keep, i + 1)

Better(etype, a, b) == IF etype = "high" THEN a > b ELSE a < b

(* Block maxima (minima): in every block of `size` ticks counted from the  *)
(* first timestamp, the first row holding the block's extreme value.       *)
BlockExtremes(rows, etype, size) ==
    LET block(i) == (rows[i].t - rows[1].t) \div size
        best(i) == \A j \in 1..Len(rows) :
                      (j # i /\ block(j) = block(i)) =>
                          /\ ~Better(etype, rows[j].v, rows[i].v)
                          /\ (rows[j].v = rows[i].v => i < j)
    IN  RowsAt(rows, {i \in 1..Len(rows) : best(i)}, 1)

(* Peaks over threshold: the rows beyond the threshold.  The rows of the   *)
(* signals used here lie further apart than any declustering window r.     *)
ThresholdExtremes(rows, etype, threshold) ==
    RowsAt(rows, {i \in 1..Len(rows) : Better(etype, rows[i].v, threshold)}, 1)

(* pyextremes.extremes.get_extremes(method, ts, extremes_type, **kwargs)   *)
get_extremes(method, ts, etype, kwargs) ==
    CASE method = "BM" ->
           LET block_size == IF Has(kwargs, "block_size")
                             THEN kwargs.kw.block_size ELSE Str("1Y")
           IN  IF Ticks(block_size) <= 0
               THEN [raised |-> Raise("ValueError", ""), value |-> None]
               ELSE [raised |-> NoError,
                     value |-> Series(BlockExtremes(ts, etype, Ticks(block_size)))]
      [] method = "POT" ->
           IF ~Has(kwargs, "threshold")
           THEN [raised |-> Raise("TypeError", ""), value |-> None]
           ELSE [raised |-> NoError,
                 value |-> Series(ThresholdExtremes(ts, etype, kwargs.kw.threshold.n))]
      [] OTHER -> [raised |-> Raise("ValueError", ""), value |-> None]

(* pyextremes.extremes.ExtremesTransformer(extremes, extremes_method,      *)
(* extremes_type)                                                          *)
ExtremesTransformer(ex, method, etype) ==
    [ty |-> "ExtremesTransformer", extremes |-> ex,
     extremes_method |-> method, extremes_type |-> etype]

RECURSIVE MaxV(_)
MaxV(rows) ==
    IF Len(rows) = 1 THEN rows[1].v
    ELSE LET m == MaxV(Tail(rows)) IN IF rows[1].v > m THEN rows[1].v ELSE m

(* The transformer's forward transform: the identity for high extremes, a  *)
(* mirror image about the largest extreme for low extremes.                *)
forward_transform(tr, v) ==
    IF tr.extremes_type = "high" \/ tr.extremes.rows = <<>> THEN v
    ELSE 2 * MaxV(tr.extremes.rows) - v

(* ExtremesTransformer.transformed_extremes                                *)
transformed_extremes(tr) ==
    Series([i \in 1..Len(tr.extremes.rows) |->
              [tr.extremes.rows[i] EXCEPT !.v = forward_transform(tr, @)]])

(* pyextremes.models.get_model(model, extremes, distribution, **kwargs):   *)
(* the fit may fail (fit_raises); it fails on an empty sample.             *)
get_model(name, ex, distribution, kwargs, fit_raises) ==
    IF fit_raises \/ ex.rows = <<>>
    THEN [raised |-> Raise("FitError", ""), value |-> None]
    ELSE [raised |-> NoError,
          value |-> [ty |-> "Model", name |-> name, distribution |-> distribution,
                     extremes |-> ex]]

(* model.get_return_value(exceedance_probability, alpha, **kwargs) for one *)
(* probability: the estimate and the two bounds, None without alpha.       *)
ReturnValueAt(m, p, alpha, kwargs) ==
    << [of |-> "isf", distribution |-> m.distribution, p |-> p],
       IF alpha = None THEN None
       ELSE [of |-> "lower", distribution |-> m.distribution, p |-> p,
             alpha |-> alpha, kwargs |-> kwargs],
       IF alpha = None THEN None
       ELSE [of |-> "upper", distribution |-> m.distribution, p |-> p,
             alpha |-> alpha, kwargs |-> kwargs] >>

(* model.get_return_value: element-wise over an array of probabilities.    *)
model_get_return_value(m, exceedance_probability, alpha, kwargs) ==
    IF exceedance_probability.ty = "ndarray"
    THEN LET n == Len(exceedance_probability.items)
             at(i) == ReturnValueAt(m, exceedance_probability.items[i], alpha, kwargs)
         IN  << [i \in 1..n |-> at(i)[1]],
                [i \in 1..n |-> at(i)[2]],
                [i \in 1..n |-> at(i)[3]] >>
    ELSE ReturnValueAt(m, exceedance_probability.p, alpha, kwargs)

(* The plotting positions of pyextremes.extremes.get_return_periods: the   *)
(* pair (alpha, beta) of each name, as fractions.                          *)
PlottingPositions ==
    [ecdf |-> <<Frac(0, 1), Frac(1, 1)>>,
     hazen |-> <<Frac(1, 2), Frac(1, 2)>>,
     weibull |-> <<Frac(0, 1), Frac(0, 1)>>,
     tukey |-> <<Frac(1, 3), Frac(1, 3)>>,
     blom |-> <<Frac(3, 8), Frac(3, 8)>>,
     median |-> <<Frac(127, 400), Frac(127, 400)>>,
     cunnane |-> <<Frac(2, 5), Frac(2, 5)>>,
     gringorten |-> <<Frac(11, 25), Frac(11, 25)>>,
     beard |-> <<Frac(31, 100), Frac(31, 100)>>]

(* The rank of row i among the extremes: 1 for the most extreme value,     *)
(* equal values ranked in row order.                                       *)
Rank(rows, etype, i) ==
    1 + Cardinality({j \in 1..Len(rows) :
                       \/ Better(etype, rows[j].v, rows[i].v)
                       \/ (rows[j].v = rows[i].v /\ j < i)})

(* The empirical exceedance probability (rank - alpha) / (n + 1 - alpha -  *)
(* beta) of the row ranked `rank` among n.                                 *)
EmpiricalExceedance(rank, n, position) ==
    LET a == PlottingPositions[position][1]
        b == PlottingPositions[position][2]
        D == a.den * b.den
    IN  Frac(rank * D - a.num * b.den,
             (n + 1) * D - a.num * b.den - b.num * a.den)

(* pyextremes.extremes.get_return_periods(ts, extremes, extremes_method,   *)
(* extremes_type, block_size, return_period_size, plotting_position): a    *)
(* table with one row per extreme event, in the order of the extremes,     *)
(* holding the observed value and its empirical exceedance probability.    *)
get_return_periods(ts, ex, method, etype, block_size, size, plotting_position) ==
    IF plotting_position \notin DOMAIN PlottingPositions
    THEN [raised |-> Raise("ValueError", ""), value |-> None]
    ELSE [raised |-> NoError,
          value |-> [ty |-> "DataFrame",
                     rows |-> [i \in 1..Len(ex.rows) |->
                                 [t |-> ex.rows[i].t, v |-> ex.rows[i].v,
                                  p |-> EmpiricalExceedance(
                                            Rank(ex.rows, etype.s, i),
                                            Len(ex.rows), plotting_position)]]]]

(* model.cdf(x) and model.isf(q), element-wise over an array.              *)
model_cdf(m, xs) ==
    [i \in 1..Len(xs) |-> [of |-> "cdf", distribution |-> m.distribution,
                           x |-> xs[i]]]

model_isf(m, qs) ==
    [i \in 1..Len(qs) |-> [of |-> "isf", distribution |-> m.distribution,
                           p |-> qs[i]]]

(* The transformer's inverse transform, element-wise: the identity for     *)
(* high extremes, the mirror image back for low extremes.                  *)
inverse_transform(tr, ys) ==
    IF tr.extremes_type = "high" \/ tr.extremes.rows = <<>> THEN ys
    ELSE [i \in 1..Len(ys) |->
            [of |-> "mirror", about |-> MaxV(tr.extremes.rows), y |-> ys[i]]]

(* pyextremes.plotting.plot_probability(observed, theoretical, ax,         *)
(* figsize): the figure and axes drawn.                                    *)
plot_probability(observed, theoretical) ==
    [ty |-> "figure", points |-> Len(observed)]

-----------------------------------------------------------------------------
(* The EVA object.  Each method is an operator from the object (a record   *)
(* of its attributes) and the arguments to: the object afterwards, the     *)
(* exception raised (NoError on a normal return), the value returned, the  *)
(* collaborators invoked in order, and the arguments handed to the model   *)
(* or plotting collaborator.                                               *)

Self ==
    [data |-> data, extremes |-> extremes, extremes_method |-> extremes_method,
     extremes_type |-> extremes_type, extremes_kwargs |-> extremes_kwargs,
     extremes_transformer |-> extremes_transformer,
     model |-> model, model_kwargs |-> model_kwargs]

Outcome(self, raised, ret, invoked, handed) ==
    [self |-> self, raised |-> raised, ret |-> ret, invoked |-> invoked,
     handed |-> handed]

(* An attribute that was never assigned, and the object before __init__    *)
(* has assigned any.                                                       *)
Unset == [ty |-> "unset"]
Unbuilt ==
    [data |-> Unset, extremes |-> Unset, extremes_method |-> Unset,
     extremes_type |-> Unset, extremes_kwargs |-> Unset,
     extremes_transformer |-> Unset, model |-> Unset, model_kwargs |-> Unset]

(* The type tests with only the container tested.                          *)
InputTypeErrorSeriesOnly(input) ==
    IF input.ty # "Series" THEN Raise("TypeError", "") ELSE NoError

(* __init__, lines 59-64: the three type tests on the argument.            *)
InputTypeError(input) ==
    IF input.ty # "Series" THEN Raise("TypeError", "")
    ELSE IF ~input.is_all_dates THEN Raise("TypeError", "")
    ELSE IF ~input.numeric THEN Raise("TypeError", "")
    ELSE NoError

(* EVA.__init__(data) on the object not yet built: the tests come before   *)
(* the first assignment of line 67.                                        *)
EVA_init(self, input) ==
    IF InputTypeError(input) # NoError
    THEN Outcome(self, InputTypeError(input), None, <<>>, None)
    ELSE Outcome([self EXCEPT !.data = EVA_init_data(input.rows),
                              !.extremes = None,
                              !.extremes_method = None,
                              !.extremes_type = None,
                              !.extremes_kwargs = None,
                              !.extremes_transformer = None,
                              !.model = None,
                              !.model_kwargs = None],
                 NoError, None, <<>>, None)

(* The conversion of lines 232-234 applied to every entry given as text.   *)
NormalizeEveryDuration(kwargs) ==
    IF \E k \in DOMAIN kwargs.kw :
           kwargs.kw[k].ty = "str" /\ to_timedelta(kwargs.kw[k].s) < 0
    THEN [raised |-> Raise("ValueError", ""), value |-> kwargs]
    ELSE [raised |-> NoError,
          value |-> [kwargs EXCEPT
                       !.kw = [k \in DOMAIN @ |->
                                 IF @[k].ty = "str"
                                 THEN Timedelta(to_timedelta(@[k].s))
                                 ELSE @[k]]]]

(* get_extremes, lines 232-234: block_size given as text becomes a         *)
(* Timedelta; every other entry of the copied kwargs stays as passed.      *)
NormalizeBlockSize(kwargs) ==
    IF Has(kwargs, "block_size") /\ kwargs.kw.block_size.ty = "str"
    THEN IF to_timedelta(kwargs.kw.block_size.s) < 0
         THEN [raised |-> Raise("ValueError", ""), value |-> kwargs]
         ELSE [raised |-> NoError,
               value |-> [kwargs EXCEPT
                            !.kw.block_size = Timedelta(to_timedelta(@.s))]]
    ELSE [raised |-> NoError, value |-> kwargs]

(* get_extremes without lines 243-245: the attribute is left as it was.    *)
ModelKept(m) == m

(* get_extremes, lines 243-245: the model attributes after an extraction.  *)
ModelAfterExtraction(m) == None

(* get_extremes with the method, type and kwargs stored before the         *)
(* collaborator is called.                                                 *)
EVA_get_extremes_StoresFirst(self, method, etype, kwargs, transformer_raises) ==
    LET r == get_extremes(method, self.data, etype, kwargs)
        norm == NormalizeBlockSize(kwargs)
        s0 == [self EXCEPT !.extremes_method = Str(method),
                           !.extremes_type = Str(etype),
                           !.extremes_kwargs = kwargs]
        s1 == [s0 EXCEPT !.extremes = r.value]
        s2 == [s1 EXCEPT !.extremes_kwargs = norm.value]
        s3 == [s2 EXCEPT !.extremes_transformer =
                             ExtremesTransformer(s2.extremes, method, etype)]
        s4 == [s3 EXCEPT !.model = ModelAfterExtraction(s3.model),
                         !.model_kwargs = ModelAfterExtraction(s3.model_kwargs)]
    IN  IF r.raised # NoError
        THEN Outcome(s0, r.raised, None, <<"get_extremes">>, None)
        ELSE IF norm.raised # NoError
        THEN Outcome(s1, norm.raised, None, <<"get_extremes">>, None)
        ELSE IF transformer_raises
        THEN Outcome(s2, Raise("TransformerError", ""), None,
                     <<"get_extremes", "ExtremesTransformer">>, None)
        ELSE Outcome(s4, NoError, None, <<"get_extremes", "ExtremesTransformer">>, None)

(* EVA.get_extremes(method, extremes_type, **kwargs).  transformer_raises: *)
(* the ExtremesTransformer constructor raises.                             *)
EVA_get_extremes(self, method, etype, kwargs, transformer_raises) ==
    LET r == get_extremes(method, self.data, etype, kwargs)
        norm == NormalizeBlockSize(kwargs)
        s1 == [self EXCEPT !.extremes = r.value,
                           !.extremes_method = Str(method),
                           !.extremes_type = Str(etype),
                           !.extremes_kwargs = kwargs]
        s2 == [s1 EXCEPT !.extremes_kwargs = norm.value]
        s3 == [s2 EXCEPT !.extremes_transformer =
                             ExtremesTransformer(s2.extremes, method, etype)]
        s4 == [s3 EXCEPT !.model = ModelAfterExtraction(s3.model),
                         !.model_kwargs = ModelAfterExtraction(s3.model_kwargs)]
    IN  IF r.raised # NoError
        THEN Outcome(self, r.raised, None, <<"get_extremes">>, None)
        ELSE IF norm.raised # NoError
        THEN Outcome(s1, norm.raised, None, <<"get_extremes">>, None)
        ELSE IF transformer_raises
        THEN Outcome(s2, Raise("TransformerError", ""), None,
                     <<"get_extremes", "ExtremesTransformer">>, None)
        ELSE Outcome(s4, NoError, None, <<"get_extremes", "ExtremesTransformer">>, None)

(* fit_model without the test of lines 312-313.                            *)
ExtremesNeverMissing(self) == FALSE

(* fit_model, lines 312-313: the precondition.                             *)
ExtremesMissing(self) == self.extremes = None

(* The compatibility test with both families held to the BM method.        *)
CompatibilityErrorOneMethod(distribution, method) ==
    IF distribution \in {"genextreme", "gumbel_r", "genpareto", "expon"}
    THEN IF method # Str("BM") THEN Raise("ValueError", "") ELSE NoError
    ELSE NoError

(* The compatibility test refusing every distribution it does not know.    *)
CompatibilityErrorKnownOnly(distribution, method) ==
    IF distribution \in {"genextreme", "gumbel_r"}
    THEN IF method # Str("BM") THEN Raise("ValueError", "") ELSE NoError
    ELSE IF distribution \in {"genpareto", "expon"}
    THEN IF method # Str("POT") THEN Raise("ValueError", "") ELSE NoError
    ELSE Raise("ValueError", "")

(* fit_model, lines 316-325: the distribution against the extraction       *)
(* method.                                                                 *)
CompatibilityError(distribution, method) ==
    IF distribution \in {"genextreme", "gumbel_r"}
    THEN IF method # Str("BM") THEN Raise("ValueError", "") ELSE NoError
    ELSE IF distribution \in {"genpareto", "expon"}
    THEN IF method # Str("POT") THEN Raise("ValueError", "") ELSE NoError
    ELSE NoError

(* fit_model with the earlier model dropped when the collaborator raises.  *)
EVA_fit_model_DropsModel(self, name, distribution, kwargs, fit_raises) ==
    IF ExtremesMissing(self)
    THEN Outcome(self, Raise("AttributeError", "get_extremes"), None, <<>>, None)
    ELSE IF CompatibilityError(distribution, self.extremes_method) # NoError
    THEN Outcome(self, CompatibilityError(distribution, self.extremes_method),
                 None, <<>>, None)
    ELSE IF self.extremes_transformer = None
    THEN Outcome(self, Raise("AttributeError", ""), None, <<>>, None)
    ELSE LET given == [model |-> name,
                       extremes |-> transformed_extremes(self.extremes_transformer),
                       distribution |-> distribution, kwargs |-> kwargs]
             r == get_model(name, given.extremes, distribution, kwargs, fit_raises)
         IN  Outcome([self EXCEPT !.model = r.value,
                                  !.model_kwargs = IF r.raised = NoError
                                                   THEN kwargs ELSE None],
                     r.raised, None, <<"get_model">>, given)

(* EVA.fit_model(model, distribution, **kwargs).  fit_raises: the model    *)
(* collaborator raises.                                                    *)
EVA_fit_model(self, name, distribution, kwargs, fit_raises) ==
    IF ExtremesMissing(self)
    THEN Outcome(self, Raise("AttributeError", "get_extremes"), None, <<>>, None)
    ELSE IF CompatibilityError(distribution, self.extremes_method) # NoError
    THEN Outcome(self, CompatibilityError(distribution, self.extremes_method),
                 None, <<>>, None)
    ELSE IF self.extremes_transformer = None
    THEN Outcome(self, Raise("AttributeError", ""), None, <<>>, None)
    ELSE LET given == [model |-> name,
                       extremes |-> transformed_extremes(self.extremes_transformer),
                       distribution |-> distribution, kwargs |-> kwargs]
             r == get_model(name, given.extremes, distribution, kwargs, fit_raises)
         IN  IF r.raised # NoError
             THEN Outcome(self, r.raised, None, <<"get_model">>, given)
             ELSE Outcome([self EXCEPT !.model = r.value, !.model_kwargs = kwargs],
                          NoError, None, <<"get_model">>, given)

(* The quotient of line 378 taken the wrong way round.                     *)
BlockMaximaRateInverted(return_period_size, block_size) ==
    TimedeltaDiv(block_size, return_period_size)

(* get_return_value, line 378: events per return_period_size, BM.         *)
BlockMaximaRate(return_period_size, block_size) ==
    TimedeltaDiv(return_period_size, block_size)

(* Line 381 with the duration between the first and last extreme.          *)
NumberOfPeriodsOfExtremes(ts, ex, return_period_size) ==
    TimedeltaDiv(Timedelta(IF ex = <<>> THEN 0 ELSE ex[Len(ex)].t - ex[1].t),
                 return_period_size)

(* get_return_value, line 381: the signal's duration in units of           *)
(* return_period_size.                                                     *)
NumberOfPeriods(ts, ex, return_period_size) ==
    TimedeltaDiv(Timedelta(ts[Len(ts)].t - ts[1].t), return_period_size)

(* get_return_value, lines 377-385: extremes_rate.                         *)
ExtremesRate(self, return_period_size) ==
    IF self.extremes_method = Str("BM")
    THEN IF ~Has(self.extremes_kwargs, "block_size")
         THEN [raised |-> Raise("KeyError", ""), value |-> One]
         ELSE BlockMaximaRate(return_period_size, self.extremes_kwargs.kw.block_size)
    ELSE IF self.extremes_method = Str("POT")
    THEN LET n_periods == NumberOfPeriods(self.data, self.extremes.rows,
                                          return_period_size)
         IN  IF n_periods.raised # NoError THEN n_periods
             ELSE IF n_periods.value.num = 0
             THEN [raised |-> Raise("ZeroDivisionError", ""), value |-> One]
             ELSE [raised |-> NoError,
                   value |-> FracDiv(Frac(Len(self.extremes.rows), 1), n_periods.value)]
    ELSE [raised |-> Raise("RuntimeError", ""), value |-> One]

(* 1 / return_period / extremes_rate for one return period.                *)
Exceedance(T, extremes_rate) == FracDiv(FracDiv(One, T), extremes_rate)

(* Lines 388-397 with the array filled in reverse order.                   *)
ExceedanceProbabilityReversed(return_period, extremes_rate) ==
    IF return_period.ty = "list"
    THEN LET n == Len(return_period.items)
         IN  [raised |-> NoError,
              value |-> NdArray([i \in 1..n |->
                           Exceedance(Frac(return_period.items[n + 1 - i], 1),
                                      extremes_rate)])]
    ELSE IF return_period.ty = "float"
    THEN IF extremes_rate.num = 0
         THEN [raised |-> Raise("ZeroDivisionError", ""), value |-> None]
         ELSE [raised |-> NoError,
               value |-> PyFloat(Exceedance(return_period.p, extremes_rate))]
    ELSE [raised |-> Raise("TypeError", ""), value |-> None]

(* get_return_value, lines 388-397: exceedance_probability.  A zero rate   *)
(* divides a float by zero (ZeroDivisionError) and an array into inf.      *)
ExceedanceProbability(return_period, extremes_rate) ==
    IF return_period.ty = "list"
    THEN [raised |-> NoError,
          value |-> NdArray([i \in 1..Len(return_period.items) |->
                       Exceedance(Frac(return_period.items[i], 1), extremes_rate)])]
    ELSE IF return_period.ty = "float"
    THEN IF extremes_rate.num = 0
         THEN [raised |-> Raise("ZeroDivisionError", ""), value |-> None]
         ELSE [raised |-> NoError,
               value |-> PyFloat(Exceedance(return_period.p, extremes_rate))]
    ELSE [raised |-> Raise("TypeError", ""), value |-> None]

(* EVA.get_return_value(return_period, return_period_size, alpha, **kwargs)*)
EVA_get_return_value(self, return_period, return_period_size, alpha, kwargs) ==
    LET rate == ExtremesRate(self, return_period_size)
        ep == ExceedanceProbability(return_period, rate.value)
        given == [exceedance_probability |-> ep.value, alpha |-> alpha,
                  kwargs |-> kwargs]
    IN  IF rate.raised # NoError
        THEN Outcome(self, rate.raised, None, <<>>, None)
        ELSE IF ep.raised # NoError
        THEN Outcome(self, ep.raised, None, <<>>, None)
        ELSE IF self.model = None
        THEN Outcome(self, Raise("AttributeError", ""), None, <<>>, None)
        ELSE Outcome(self, NoError,
                     model_get_return_value(self.model, ep.value, alpha, kwargs),
                     <<"model.get_return_value">>, given)

RECURSIVE InsertPeriod(_, _)
InsertPeriod(x, sorted) ==
    IF sorted = <<>> THEN <<x>>
    ELSE IF x < Head(sorted) THEN <<x>> \o sorted
    ELSE <<Head(sorted)>> \o InsertPeriod(x, Tail(sorted))
RECURSIVE SortedPeriods(_)
SortedPeriods(items) ==
    IF items = <<>> THEN <<>>
    ELSE InsertPeriod(Head(items), SortedPeriods(Tail(items)))

(* Lines 449-453 with the index sorted ascending.                          *)
SummaryFrameSorted(return_values, return_period) ==
    IF return_period.ty # "list"
    THEN [raised |-> Raise("TypeError", ""), value |-> None]
    ELSE [raised |-> NoError,
          value |-> [ty |-> "DataFrame",
                     index |-> SortedPeriods(return_period.items),
                     columns |-> <<"return value", "lower ci", "upper ci">>,
                     rows |-> [i \in 1..Len(return_values[1]) |->
                                 <<return_values[1][i], return_values[2][i],
                                   return_values[3][i]>>]]]

(* get_summary, lines 449-453: the DataFrame of the transposed return      *)
(* values, indexed by return_period as given.  pd.Index refuses a scalar.  *)
SummaryFrame(return_values, return_period) ==
    IF return_period.ty # "list"
    THEN [raised |-> Raise("TypeError", ""), value |-> None]
    ELSE [raised |-> NoError,
          value |-> [ty |-> "DataFrame",
                     index |-> return_period.items,
                     columns |-> <<"return value", "lower ci", "upper ci">>,
                     rows |-> [i \in 1..Len(return_values[1]) |->
                                 <<return_values[1][i], return_values[2][i],
                                   return_values[3][i]>>]]]

(* EVA.get_summary(return_period, return_period_size, alpha, **kwargs)     *)
EVA_get_summary(self, return_period, return_period_size, alpha, kwargs) ==
    LET rv == EVA_get_return_value(self, return_period, return_period_size,
                                   alpha, kwargs)
        frame == SummaryFrame(rv.ret, return_period)
    IN  IF rv.raised # NoError THEN rv
        ELSE Outcome(self, frame.raised, frame.value, rv.invoked, rv.handed)

FracSub(a, b) == Frac(a.num * b.den - b.num * a.den, a.den * b.den)

(* The probability-plot data with neither transform applied.               *)
ProbabilityDataUntransformed(self, plot_type, table) ==
    LET n == Len(table.rows)
        values == [i \in 1..n |-> table.rows[i].v]
        probabilities == [i \in 1..n |-> table.rows[i].p]
    IN  IF plot_type \notin {"PP", "QQ"}
        THEN [raised |-> Raise("ValueError", "PP, QQ"), value |-> None]
        ELSE IF self.model = None \/ self.extremes_transformer = None
        THEN [raised |-> Raise("AttributeError", ""), value |-> None]
        ELSE IF plot_type = "PP"
        THEN [raised |-> NoError,
              value |-> [observed |-> [i \in 1..n |-> FracSub(One, probabilities[i])],
                         theoretical |-> model_cdf(self.model, values)]]
        ELSE [raised |-> NoError,
              value |-> [observed |-> values,
                         theoretical |-> model_isf(self.model, probabilities)]]

(* plot_probability, lines 592-607: the observed and the theoretical       *)
(* values of the plot from the table of observed return values.            *)
ProbabilityData(self, plot_type, table) ==
    LET n == Len(table.rows)
        values == [i \in 1..n |-> table.rows[i].v]
        probabilities == [i \in 1..n |-> table.rows[i].p]
    IN  CASE plot_type = "PP" ->
               IF self.model = None \/ self.extremes_transformer = None
               THEN [raised |-> Raise("AttributeError", ""), value |-> None]
               ELSE [raised |-> NoError,
                     value |-> [observed |->
                                    [i \in 1..n |-> FracSub(One, probabilities[i])],
                                theoretical |->
                                    model_cdf(self.model,
                                        [i \in 1..n |->
                                            forward_transform(
                                                self.extremes_transformer,
                                                values[i])])]]
          [] plot_type = "QQ" ->
               IF self.model = None \/ self.extremes_transformer = None
               THEN [raised |-> Raise("AttributeError", ""), value |-> None]
               ELSE [raised |-> NoError,
                     value |-> [observed |-> values,
                                theoretical |->
                                    inverse_transform(
                                        self.extremes_transformer,
                                        model_isf(self.model, probabilities))]]
          [] OTHER -> [raised |-> Raise("ValueError", "PP, QQ"), value |-> None]

(* plot_probability with the block size it found missing stored as None in *)
(* extremes_kwargs.                                                        *)
EVA_plot_probability_StoresBlockSize(self, plot_type, return_period_size, plotting_position) ==
    IF self.extremes_kwargs = None
    THEN Outcome(self, Raise("TypeError", ""), None, <<>>, None)
    ELSE LET block_size == IF Has(self.extremes_kwargs, "block_size")
                           THEN self.extremes_kwargs.kw.block_size ELSE None
             kept == [self EXCEPT !.extremes_kwargs =
                                      Dict([block_size |-> block_size])]
             observed_return_values ==
                 get_return_periods(self.data, self.extremes, self.extremes_method,
                                    self.extremes_type, block_size,
                                    return_period_size, plotting_position)
             d == ProbabilityData(self, plot_type, observed_return_values.value)
         IN  IF observed_return_values.raised # NoError
             THEN Outcome(kept, observed_return_values.raised, None,
                          <<"get_return_periods">>, None)
             ELSE IF d.raised # NoError
             THEN Outcome(kept, d.raised, None, <<"get_return_periods">>, None)
             ELSE Outcome(kept, NoError,
                          plot_probability(d.value.observed, d.value.theoretical),
                          <<"get_return_periods", "plot_probability">>, d.value)

(* EVA.plot_probability(plot_type, return_period_size, plotting_position). *)
(* Lines 577-580 catch KeyError only: subscripting the None held by        *)
(* extremes_kwargs before an extraction is a TypeError.                    *)
EVA_plot_probability(self, plot_type, return_period_size, plotting_position) ==
    IF self.extremes_kwargs = None
    THEN Outcome(self, Raise("TypeError", ""), None, <<>>, None)
    ELSE LET block_size == IF Has(self.extremes_kwargs, "block_size")
                           THEN self.extremes_kwargs.kw.block_size ELSE None
             observed_return_values ==
                 get_return_periods(self.data, self.extremes, self.extremes_method,
                                    self.extremes_type, block_size,
                                    return_period_size, plotting_position)
             d == ProbabilityData(self, plot_type, observed_return_values.value)
         IN  IF observed_return_values.raised # NoError
             THEN Outcome(self, observed_return_values.raised, None,
                          <<"get_return_periods">>, None)
             ELSE IF d.raised # NoError
             THEN Outcome(self, d.raised, None, <<"get_return_periods">>, None)
             ELSE Outcome(self, NoError,
                          plot_probability(d.value.observed, d.value.theoretical),
                          <<"get_return_periods", "plot_probability">>, d.value)

(* __repr__, lines 132-159: the section on the extreme values.             *)
ReprExtremes(self) ==
    IF self.extremes = None
    THEN [raised |-> NoError, value |-> "Extreme values have not been extracted"]
    ELSE IF self.extremes_method = Str("BM")
    THEN IF ~Has(self.extremes_kwargs, "block_size")
         THEN [raised |-> Raise("KeyError", ""), value |-> None]
         ELSE [raised |-> NoError,
               value |-> [events |-> Len(self.extremes.rows),
                          method |-> self.extremes_method.s,
                          type |-> self.extremes_type.s,
                          parameter |-> <<"Block size",
                                          self.extremes_kwargs.kw.block_size>>]]
    ELSE IF self.extremes_method = Str("POT")
    THEN IF ~Has(self.extremes_kwargs, "threshold")
         THEN [raised |-> Raise("KeyError", ""), value |-> None]
         ELSE [raised |-> NoError,
               value |-> [events |-> Len(self.extremes.rows),
                          method |-> self.extremes_method.s,
                          type |-> self.extremes_type.s,
                          parameter |-> <<"Threshold",
                                          self.extremes_kwargs.kw.threshold>>]]
    ELSE [raised |-> Raise("RuntimeError", ""), value |-> None]

(* __repr__, lines 161-190: the section on the model.                      *)
ReprModel(self) ==
    IF self.model = None
    THEN [raised |-> NoError, value |-> "Model has not been fit to the extremes"]
    ELSE IF self.model.name = "Emcee"
    THEN IF ~(Has(self.model_kwargs, "n_walkers") /\ Has(self.model_kwargs, "n_samples"))
         THEN [raised |-> Raise("KeyError", ""), value |-> None]
         ELSE [raised |-> NoError,
               value |-> [model |-> self.model.name,
                          distribution |-> self.model.distribution,
                          walkers |-> self.model_kwargs.kw.n_walkers,
                          samples |-> self.model_kwargs.kw.n_samples]]
    ELSE [raised |-> NoError,
          value |-> [model |-> self.model.name,
                     distribution |-> self.model.distribution]]

(* EVA.__repr__(): the text, as the span of the data and the two sections. *)
EVA_repr(self) ==
    IF Len(self.data) = 0
    THEN Outcome(self, Raise("IndexError", ""), None, <<>>, None)
    ELSE IF ReprExtremes(self).raised # NoError
    THEN Outcome(self, ReprExtremes(self).raised, None, <<>>, None)
    ELSE IF ReprModel(self).raised # NoError
    THEN Outcome(self, ReprModel(self).raised, None, <<>>, None)
    ELSE Outcome(self, NoError,
                 [ty |-> "str",
                  range |-> <<self.data[1].t, self.data[Len(self.data)].t>>,
                  extremes |-> ReprExtremes(self).value,
                  model |-> ReprModel(self).value],
                 <<>>, None)

-----------------------------------------------------------------------------
(* The arguments explored.                                                 *)

MaxThreshold == 1
MaxPeriods == 2

Row(t, v) == [t |-> t, v |-> v, na |-> FALSE]
NaRow(t) == [t |-> t, v |-> 0, na |-> TRUE]

(* Valid input signals: sorted and clean; unsorted with a nan value; two   *)
(* readings at one timestamp.                                              *)
RawSignals ==
    { << Row(0, 1), Row(36000, 3), Row(438291, 2), Row(876582, 1) >>,
      << Row(438291, 2), NaRow(0), Row(36000, 3) >>,
      << Row(0, 1), Row(0, 2) >> }

ExtremesTypes == {"high", "low"}

ExtractionArgs ==
    ( {"BM"} \X { NoKwargs,
                  Dict([block_size |-> Str("1Y")]),
                  Dict([block_size |-> Timedelta(36000)]),
                  Dict([block_size |-> Str("1X")]) } )
    \cup ( {"POT"} \X ( { NoKwargs }
                        \cup { Dict([threshold |-> PyInt(n)]) : n \in 1..MaxThreshold }
                        \cup { Dict([threshold |-> PyInt(2), r |-> Str("24H")]) } ) )
    \cup ( {"XX"} \X { NoKwargs } )

Distributions == {"genextreme", "gumbel_r", "genpareto", "expon", "norm"}

ModelArgs ==
    ( {"MLE"} \X { NoKwargs } \X Distributions )
    \cup ( {"Emcee"} \X { Dict([n_walkers |-> PyInt(2), n_samples |-> PyInt(3)]) }
                     \X { "gumbel_r", "genpareto" } )

(* Return periods: a float, an int, text, and lists: the ascending         *)
(* [10, 50, 100] and the leading parts of an unsorted list with a repeat.  *)
UnsortedPeriods == <<100, 10, 100, 50>>
ReturnPeriodArgs ==
    { PyFloat(Frac(10, 1)), PyInt(10), Str("10"), PyList(<<10, 50, 100>>) }
    \cup { PyList(SubSeq(UnsortedPeriods, 1, n)) : n \in 1..MaxPeriods }

ReturnPeriodSizes == { Str("1Y"), Timedelta(36000) }

IntervalArgs ==
    { <<None, NoKwargs>>,
      <<PyFloat(Frac(19, 20)), Dict([n_samples |-> PyInt(2)])>> }

QueryArgs == ReturnPeriodArgs \X ReturnPeriodSizes \X IntervalArgs

(* The queries made while collaborator failures are explored.              *)
FewQueryArgs ==
    { PyFloat(Frac(10, 1)), PyList(<<10, 50, 100>>) } \X { Str("1Y") }
        \X { <<None, NoKwargs>> }

(* Arguments of the constructor.  The readings of a signal: two at one     *)
(* timestamp, a later one, and nan values; a signal is any sequence of up  *)
(* to MaxSignalLen readings.  An argument is a Series of such readings     *)
(* whose index holds dates or not and whose values are numeric or not, or  *)
(* a list.                                                                 *)
MaxSignalLen == 3

Readings == { Row(0, 1), Row(0, 2), Row(36000, 3), NaRow(0), NaRow(36000) }

RECURSIVE SignalsOfLen(_)
SignalsOfLen(n) ==
    IF n = 0 THEN { <<>> }
    ELSE { <<r>> \o s : r \in Readings, s \in SignalsOfLen(n - 1) }

Signals == UNION { SignalsOfLen(n) : n \in 1..MaxSignalLen }

Input(ty, is_all_dates, numeric, rows) ==
    [ty |-> ty, is_all_dates |-> is_all_dates, numeric |-> numeric, rows |-> rows]

ConstructorArgs ==
    { Input("Series", d, n, rows) : d \in BOOLEAN, n \in BOOLEAN, rows \in Signals }
    \cup { Input("list", FALSE, FALSE, rows) : rows \in Signals }

(* Probability plots: the two kinds and a kind that is neither.            *)
PlotTypes == {"PP", "QQ", "ZZ"}

PlotArgs == PlotTypes \X ReturnPeriodSizes \X {"weibull", "ecdf"}

FewPlotArgs == PlotTypes \X { Str("1Y") } \X {"weibull"}

-----------------------------------------------------------------------------
(* The state machine: one EVA object and the calls made on it.             *)

Call(op, args, out) ==
    [op |-> op, args |-> args, raised |-> out.raised, ret |-> out.ret,
     invoked |-> out.invoked, handed |-> out.handed, had_model |-> model # None]

Becomes(self) ==
    /\ data' = self.data
    /\ extremes' = self.extremes
    /\ extremes_method' = self.extremes_method
    /\ extremes_type' = self.extremes_type
    /\ extremes_kwargs' = self.extremes_kwargs
    /\ extremes_transformer' = self.extremes_transformer
    /\ model' = self.model
    /\ model_kwargs' = self.model_kwargs

(* EVA.__init__, lines 66-85                                               *)
Init ==
    /\ \E raw \in RawSignals : data = EVA_init_data(raw)
    /\ extremes = None
    /\ extremes_method = None
    /\ extremes_type = None
    /\ extremes_kwargs = None
    /\ extremes_transformer = None
    /\ model = None
    /\ model_kwargs = None
    /\ last = [op |-> "__init__", args |-> None, raised |-> NoError, ret |-> None,
               invoked |-> <<>>, handed |-> None, had_model |-> FALSE]

GetExtremes(faults) ==
    \E a \in ExtractionArgs, etype \in ExtremesTypes, transformer_raises \in faults :
        LET args == [method |-> a[1], extremes_type |-> etype, kwargs |-> a[2]]
            out == EVA_get_extremes(Self, a[1], etype, a[2], transformer_raises)
        IN  /\ Becomes(out.self)
            /\ last' = Call("get_extremes", args, out)

FitModel ==
    \E m \in ModelArgs, fit_raises \in BOOLEAN :
        LET args == [model |-> m[1], distribution |-> m[3], kwargs |-> m[2]]
            out == EVA_fit_model(Self, m[1], m[3], m[2], fit_raises)
        IN  /\ Becomes(out.self)
            /\ last' = Call("fit_model", args, out)

GetReturnValue(queries) ==
    \E q \in queries :
        LET args == [return_period |-> q[1], return_period_size |-> q[2],
                     alpha |-> q[3][1], kwargs |-> q[3][2]]
            out == EVA_get_return_value(Self, q[1], q[2], q[3][1], q[3][2])
        IN  /\ Becomes(out.self)
            /\ last' = Call("get_return_value", args, out)

GetSummary(queries) ==
    \E q \in queries :
        LET args == [return_period |-> q[1], return_period_size |-> q[2],
                     alpha |-> q[3][1], kwargs |-> q[3][2]]
            out == EVA_get_summary(Self, q[1], q[2], q[3][1], q[3][2])
        IN  /\ Becomes(out.self)
            /\ last' = Call("get_summary", args, out)

PlotProbability(plots) ==
    \E a \in plots :
        LET args == [plot_type |-> a[1], return_period_size |-> a[2],
                     plotting_position |-> a[3]]
            out == EVA_plot_probability(Self, a[1], a[2], a[3])
        IN  /\ Becomes(out.self)
            /\ last' = Call("plot_probability", args, out)

Repr ==
    LET out == EVA_repr(Self)
    IN  /\ Becomes(out.self)
        /\ last' = Call("__repr__", None, out)

(* Every operation, with collaborators that may raise partway.             *)
Next ==
    \/ GetExtremes(BOOLEAN)
    \/ FitModel
    \/ GetReturnValue(FewQueryArgs)
    \/ GetSummary(FewQueryArgs)
    \/ PlotProbability(FewPlotArgs)
    \/ Repr

Spec == Init /\ [][Next]_vars

(* Every operation with every query argument, on extractions whose         *)
(* transformer is built.                                                   *)
NextQuery ==
    \/ GetExtremes({FALSE})
    \/ FitModel
    \/ GetReturnValue(QueryArgs)
    \/ GetSummary(QueryArgs)
    \/ PlotProbability(PlotArgs)
    \/ Repr

SpecQuery == Init /\ [][NextQuery]_vars

(* The constructor alone, from the object before any attribute exists.     *)
InitUnbuilt ==
    /\ data = Unset
    /\ extremes = Unset
    /\ extremes_method = Unset
    /\ extremes_type = Unset
    /\ extremes_kwargs = Unset
    /\ extremes_transformer = Unset
    /\ model = Unset
    /\ model_kwargs = Unset
    /\ last = [op |-> "none", args |-> None, raised |-> NoError, ret |-> None,
               invoked |-> <<>>, handed |-> None, had_model |-> FALSE]

Construct ==
    /\ last.op = "none"
    /\ \E input \in ConstructorArgs :
           LET out == EVA_init(Self, input)
           IN  /\ Becomes(out.self)
               /\ last' = [Call("__init__", input, out) EXCEPT !.had_model = FALSE]

NextConstruct == Construct

SpecConstruct == InitUnbuilt /\ [][NextConstruct]_vars

-----------------------------------------------------------------------------
(* Properties.                                                             *)

Invoked(name) == \E i \in 1..Len(last.invoked) : last.invoked[i] = name

(* The extraction fields hold the result of a completed extraction: an     *)
(* ExtremesTransformer is stored only by a get_extremes that then returns. *)
ExtractionSucceeded == extremes_transformer # None

(* C1: a get_extremes call that returns normally leaves model and          *)
(* model_kwargs None, whatever the pipeline held before, a fitted model    *)
(* included.                                                               *)
C1_ExtractionClearsModel ==
    (last.op = "get_extremes" /\ last.raised = NoError)
        => (model = None /\ model_kwargs = None)

C1_Witness ==
    /\ last.op = "get_extremes"
    /\ last.raised = NoError
    /\ last.had_model
    /\ model = None

(* C2: in every state, also one left by an operation that raised partway,  *)
(* the stored transformer is the one built from the stored extraction      *)
(* result, and a stored model was fit on the transformed extremes of the   *)
(* stored extraction result.                                               *)
C2_NeverStale ==
    /\ extremes = None => extremes_transformer = None
    /\ extremes # None =>
           extremes_transformer =
               ExtremesTransformer(extremes, extremes_method.s, extremes_type.s)
    /\ model # None =>
           /\ extremes # None
           /\ model.extremes =
                  transformed_extremes(
                      ExtremesTransformer(extremes, extremes_method.s, extremes_type.s))

(* C2, its first half alone: a stored model was fit on the transformed     *)
(* extremes of the stored extraction result.                               *)
C2_ModelNeverStale ==
    (model # None /\ extremes # None) =>
        model.extremes =
            transformed_extremes(
                ExtremesTransformer(extremes, extremes_method.s, extremes_type.s))

(* C3: after a successful extraction, fit_model with a block-maxima        *)
(* distribution on a method other than BM, or a threshold distribution on  *)
(* a method other than POT, raises ValueError and never invokes get_model; *)
(* with a matching method and distribution get_model is invoked.           *)
C3_Compatibility ==
    (last.op = "fit_model" /\ ExtractionSucceeded) =>
        LET d == last.args.distribution
        IN  /\ ( \/ (d \in {"genextreme", "gumbel_r"} /\ extremes_method # Str("BM"))
                 \/ (d \in {"genpareto", "expon"} /\ extremes_method # Str("POT")) )
                  => (last.raised.kind = "ValueError" /\ ~Invoked("get_model"))
            /\ ( \/ (d \in {"genextreme", "gumbel_r"} /\ extremes_method = Str("BM"))
                 \/ (d \in {"genpareto", "expon"} /\ extremes_method = Str("POT")) )
                  => Invoked("get_model")

C3_Witness ==
    /\ last.op = "fit_model"
    /\ ExtractionSucceeded
    /\ extremes_method = Str("BM")
    /\ last.args.distribution = "genpareto"
    /\ last.raised.kind = "ValueError"

(* C4: fit_model on a pipeline with no extraction result raises the        *)
(* precondition error that names get_extremes, for every model kind and    *)
(* distribution, and invokes no collaborator.                              *)
C4_FitNeedsExtremes ==
    (last.op = "fit_model" /\ extremes = None) =>
        /\ last.raised = Raise("AttributeError", "get_extremes")
        /\ last.invoked = <<>>

C4_Witness ==
    /\ last.op = "fit_model"
    /\ extremes = None
    /\ last.args.model = "Emcee"
    /\ last.args.distribution = "genpareto"

(* C5: get_return_value and get_summary called while no model is fitted    *)
(* raise an error that names the missing step (get_extremes or fit_model). *)
C5_NamesMissingStep ==
    (last.op \in {"get_return_value", "get_summary"} /\ model = None) =>
        /\ last.raised # NoError
        /\ last.raised.step \in {"get_extremes", "fit_model"}

(* What the claims say is handed to the model: 1 / (T x rate).            *)
ClaimedProbability(T, rate) == Frac(T.den * rate.den, T.num * rate.num)

HandedProbabilities(rate) ==
    LET rp == last.args.return_period
        ep == last.handed.exceedance_probability
    IN  IF rp.ty = "list"
        THEN /\ ep.ty = "ndarray"
             /\ Len(ep.items) = Len(rp.items)
             /\ \A i \in 1..Len(rp.items) :
                    ep.items[i] = ClaimedProbability(Frac(rp.items[i], 1), rate)
        ELSE /\ ep.ty = "float"
             /\ ep.p = ClaimedProbability(rp.p, rate)

SignalDuration == data[Len(data)].t - data[1].t

ClaimedRate ==
    IF extremes_method = Str("BM")
    THEN Frac(Ticks(last.args.return_period_size),
              Ticks(extremes_kwargs.kw.block_size))
    ELSE Frac(Len(extremes.rows) * Ticks(last.args.return_period_size),
              SignalDuration)

(* C6: on a fitted BM pipeline get_return_value hands the model            *)
(* p = 1 / (T x rate) with rate = return_period_size / block_size for      *)
(* every requested T; with block_size equal to return_period_size the rate *)
(* is 1 and p is 1/T, [10, 50, 100] giving [1/10, 1/50, 1/100].            *)
C6_BlockMaximaConversion ==
    (last.op = "get_return_value" /\ extremes_method = Str("BM")) =>
        LET rp == last.args.return_period
            rps == last.args.return_period_size
        IN  /\ ( /\ model # None
                 /\ Has(extremes_kwargs, "block_size")
                 /\ rp.ty \in {"list", "float"} )
                  => Invoked("model.get_return_value")
            /\ Invoked("model.get_return_value") =>
                  LET rate == Frac(Ticks(rps), Ticks(extremes_kwargs.kw.block_size))
                  IN  /\ HandedProbabilities(rate)
                      /\ Ticks(rps) = Ticks(extremes_kwargs.kw.block_size) =>
                            /\ rate = [num |-> 1, den |-> 1]
                            /\ rp = PyList(<<10, 50, 100>>) =>
                                  last.handed.exceedance_probability.items =
                                      << [num |-> 1, den |-> 10],
                                         [num |-> 1, den |-> 50],
                                         [num |-> 1, den |-> 100] >>
                            /\ rp.ty = "float" =>
                                  last.handed.exceedance_probability.p =
                                      [num |-> rp.p.den, den |-> rp.p.num]

C6_Witness ==
    /\ last.op = "get_return_value"
    /\ extremes_method = Str("BM")
    /\ Invoked("model.get_return_value")
    /\ extremes_kwargs.kw.block_size = Timedelta(438291)
    /\ last.args.return_period_size = Str("1Y")
    /\ last.args.return_period = PyList(<<10, 50, 100>>)
    /\ last.handed.exceedance_probability.items[2] = [num |-> 1, den |-> 50]

(* C7: on a fitted pipeline whose rate is defined, get_return_value        *)
(* accepts an int, a float or a list of numbers and reaches the model's    *)
(* return-value computation, and rejects text with TypeError.              *)
C7_AcceptsNumbers ==
    ( /\ last.op = "get_return_value"
      /\ model # None
      /\ ExtremesRate(Self, last.args.return_period_size).raised = NoError ) =>
        /\ last.args.return_period.ty \in {"int", "float", "list"}
              => Invoked("model.get_return_value")
        /\ last.args.return_period.ty = "str"
              => (last.raised.kind = "TypeError" /\ last.invoked = <<>>)

(* C8: on a fitted POT pipeline get_return_value hands the model           *)
(* p = 1 / (T x rate) with rate = (number of extremes) / ((last signal     *)
(* timestamp - first signal timestamp) / return_period_size), the duration *)
(* being the stored signal's, not the extremes' (the quotient is defined   *)
(* when the signal has a duration and there is an extreme).                *)
C8_PeaksOverThresholdConversion ==
    (last.op = "get_return_value" /\ extremes_method = Str("POT")) =>
        LET rp == last.args.return_period
            rps == last.args.return_period_size
        IN  /\ ( /\ model # None
                 /\ SignalDuration > 0
                 /\ Len(extremes.rows) > 0
                 /\ rp.ty \in {"list", "float"} )
                  => Invoked("model.get_return_value")
            /\ Invoked("model.get_return_value") =>
                  HandedProbabilities(
                      Frac(Len(extremes.rows) * Ticks(rps), SignalDuration))

C8_Witness ==
    /\ last.op = "get_return_value"
    /\ extremes_method = Str("POT")
    /\ Invoked("model.get_return_value")
    /\ Len(extremes.rows) = 2
    /\ extremes.rows[2].t - extremes.rows[1].t # SignalDuration
    /\ last.args.return_period_size = Timedelta(36000)

(* C9: for a list of n return periods get_return_value hands the model n   *)
(* probabilities, the i-th computed from the i-th return period, and       *)
(* returns three sequences of length n whose i-th entries are the model's  *)
(* estimate and bounds for the i-th probability.                           *)
C9_ShapePreserved ==
    ( /\ last.op = "get_return_value"
      /\ last.args.return_period.ty = "list"
      /\ Invoked("model.get_return_value") ) =>
        LET n == Len(last.args.return_period.items)
            ep == last.handed.exceedance_probability
        IN  /\ HandedProbabilities(ClaimedRate)
            /\ Len(last.ret) = 3
            /\ \A k \in 1..3 :
                  /\ Len(last.ret[k]) = n
                  /\ \A i \in 1..n :
                        last.ret[k][i] =
                            ReturnValueAt(model, ep.items[i], last.args.alpha,
                                          last.args.kwargs)[k]

C9_Witness ==
    /\ last.op = "get_return_value"
    /\ last.args.return_period = PyList(<<100, 10>>)
    /\ last.args.alpha # None
    /\ Invoked("model.get_return_value")
    /\ Len(last.ret[3]) = 2
    /\ last.ret[1][1] # last.ret[1][2]

(* C10: get_summary returns a table indexed by the return periods in the   *)
(* order given, whose row i holds what get_return_value yields for the     *)
(* i-th return period with the same return_period_size, alpha and kwargs.  *)
C10_SummaryRows ==
    ( /\ last.op = "get_summary"
      /\ last.args.return_period.ty = "list"
      /\ Invoked("model.get_return_value") ) =>
        LET periods == last.args.return_period.items
        IN  /\ last.raised = NoError
            /\ last.ret.ty = "DataFrame"
            /\ last.ret.index = periods
            /\ Len(last.ret.rows) = Len(periods)
            /\ \A i \in 1..Len(periods) :
                  LET one == EVA_get_return_value(Self, PyList(<<periods[i]>>),
                                                  last.args.return_period_size,
                                                  last.args.alpha,
                                                  last.args.kwargs).ret
                  IN  last.ret.rows[i] = <<one[1][1], one[2][1], one[3][1]>>

C10_Witness ==
    /\ last.op = "get_summary"
    /\ last.raised = NoError
    /\ last.args.return_period = PyList(<<100, 10>>)
    /\ last.args.alpha # None
    /\ last.ret.index = <<100, 10>>
    /\ last.ret.rows[1] # last.ret.rows[2]

(* C11: plot_probability with a plot_type other than PP and QQ raises the   *)
(* ValueError that names PP, QQ, in every state of the pipeline: before an *)
(* extraction, after an extraction only, and after a fit.                  *)
C11_InvalidPlotType ==
    (last.op = "plot_probability" /\ last.args.plot_type \notin {"PP", "QQ"})
        => last.raised = Raise("ValueError", "PP, QQ")

Constructed == last.op = "__init__" /\ last.raised = NoError

StrictlyAscending(rows) == \A i \in 1..(Len(rows) - 1) : rows[i].t < rows[i + 1].t

Ascending(rows) == \A i \in 1..(Len(rows) - 1) : rows[i].t <= rows[i + 1].t

NullFree(rows) == \A i \in 1..Len(rows) : ~rows[i].na

Count(rows, r) == Cardinality({i \in 1..Len(rows) : rows[i] = r})

InvalidInput(input) ==
    input.ty # "Series" \/ ~input.is_all_dates \/ ~input.numeric

(* C13: the constructor raises TypeError, with no attribute of the object  *)
(* assigned, when its argument is not a Series, when the index does not    *)
(* hold dates, or when the values are not numeric; on any other argument,  *)
(* unsorted or holding nan values, it raises nothing.                      *)
C13_TypeErrorNothingAssigned ==
    last.op = "__init__" =>
        IF InvalidInput(last.args)
        THEN last.raised = Raise("TypeError", "") /\ Self = Unbuilt
        ELSE last.raised = NoError /\ extremes = None /\ model = None

(* A Series of text values under a date index was refused.                 *)
C13_Witness ==
    /\ last.op = "__init__"
    /\ last.args.ty = "Series" /\ last.args.is_all_dates /\ ~last.args.numeric
    /\ ~Ascending(last.args.rows)
    /\ last.raised = Raise("TypeError", "")
    /\ data = Unset

(* C14: after get_extremes(method='BM') without block_size, served by the  *)
(* collaborator's default of one year, and a fit, get_return_value takes   *)
(* the rate return_period_size / one year, hands the model the             *)
(* probabilities 1 / (T x rate) and returns the model's result.            *)
C14_DefaultBlockSize ==
    ( /\ last.op = "get_return_value"
      /\ ExtractionSucceeded
      /\ extremes_method = Str("BM")
      /\ ~Has(extremes_kwargs, "block_size")
      /\ model # None
      /\ last.args.return_period.ty \in {"list", "float"} )
        => /\ last.raised = NoError
           /\ Invoked("model.get_return_value")
           /\ HandedProbabilities(Frac(Ticks(last.args.return_period_size),
                                       to_timedelta("1Y")))
           /\ last.ret = model_get_return_value(
                              model, last.handed.exceedance_probability,
                              last.args.alpha, last.args.kwargs)

(* C15: every fit_model that returns normally has handed get_model the     *)
(* transformed extremes of the transformer of the most recent extraction,  *)
(* the one built from the extremes, method and type now stored, and has    *)
(* stored the collaborator's result as model and the call's kwargs as      *)
(* model_kwargs.                                                           *)
C15_FitOnTransformed ==
    (last.op = "fit_model" /\ last.raised = NoError) =>
        /\ Invoked("get_model")
        /\ last.handed.extremes =
               transformed_extremes(
                   ExtremesTransformer(extremes, extremes_method.s, extremes_type.s))
        /\ model = get_model(last.args.model, last.handed.extremes,
                             last.args.distribution, last.args.kwargs, FALSE).value
        /\ model_kwargs = last.args.kwargs

(* C16: fit_model with a distribution outside genextreme, gumbel_r,        *)
(* genpareto and expon, on a pipeline whose extraction succeeded, makes no *)
(* compatibility test: under either extraction method get_model is         *)
(* invoked, its error is the error the caller sees, and its result the     *)
(* model stored.                                                           *)
C16_UnknownDistribution ==
    ( /\ last.op = "fit_model"
      /\ ExtractionSucceeded
      /\ last.args.distribution
            \notin {"genextreme", "gumbel_r", "genpareto", "expon"} )
        => /\ Invoked("get_model")
           /\ last.handed.distribution = last.args.distribution
           /\ last.raised \in {NoError, Raise("FitError", "")}
           /\ last.handed.extremes.rows = <<>> => last.raised = Raise("FitError", "")
           /\ last.raised = NoError =>
                  model = get_model(last.args.model, last.handed.extremes,
                                    last.args.distribution, last.args.kwargs,
                                    FALSE).value

(* The collaborator refused a sample of POT extremes for the distribution  *)
(* norm and the caller saw its error.                                      *)
C16_Witness ==
    /\ last.op = "fit_model"
    /\ last.args.distribution = "norm"
    /\ extremes_method = Str("POT")
    /\ Invoked("get_model")
    /\ last.handed.extremes.rows # <<>>
    /\ last.raised = Raise("FitError", "")

(* C17: with an extraction collaborator that refuses every method other   *)
(* than BM and POT, no sequence of calls makes get_return_value or         *)
(* __repr__ raise the RuntimeError of a method that is neither.            *)
C17_NoRuntimeError ==
    last.op \in {"get_return_value", "__repr__"} =>
        last.raised.kind # "RuntimeError"

(* C18: after a get_extremes call that returns normally extremes_kwargs    *)
(* holds the keys the caller passed; block_size passed as text is held as  *)
(* the Timedelta of that text, '1Y' as one year; every other value, a POT  *)
(* r passed as text included, is held as passed; and the mapping the       *)
(* caller passed is as it was.                                             *)
C18_StoredParameters ==
    (last.op = "get_extremes" /\ last.raised = NoError) =>
        LET passed == last.args.kwargs.kw
            stored == extremes_kwargs.kw
        IN  /\ DOMAIN stored = DOMAIN passed
            /\ \A k \in DOMAIN passed :
                   IF k = "block_size" /\ passed[k].ty = "str"
                   THEN /\ stored[k].ty = "Timedelta"
                        /\ stored[k].n = to_timedelta(passed[k].s)
                        /\ passed[k] = Str("1Y") => stored[k] = Timedelta(438291)
                   ELSE stored[k] = passed[k]

(* A block size passed as the text '1Y' was stored as a Timedelta, the     *)
(* call's own kwargs still holding the text.                               *)
C18_Witness ==
    /\ last.op = "get_extremes"
    /\ last.raised = NoError
    /\ last.args.kwargs = Dict([block_size |-> Str("1Y")])
    /\ extremes_kwargs = Dict([block_size |-> Timedelta(438291)])

(* The table of the return-period estimator for the call made.            *)
ObservedTable ==
    get_return_periods(data, extremes, extremes_method, extremes_type, None,
                       last.args.return_period_size,
                       last.args.plotting_position).value.rows

(* C19: on a fitted pipeline plot_probability hands the plot one observed  *)
(* and one theoretical value per extreme event, in the row order of the    *)
(* estimator's table.  PP: observed is 1 minus the empirical exceedance    *)
(* probability and theoretical the model's cdf of the forward transform of *)
(* the observed extreme value.  QQ: observed is the observed extreme value *)
(* as extracted and theoretical the inverse transform of the model's isf   *)
(* of the empirical exceedance probability.                                *)
C19_ProbabilityPlotData ==
    ( /\ last.op = "plot_probability"
      /\ model # None
      /\ last.args.plot_type \in {"PP", "QQ"} )
        => /\ last.raised = NoError
           /\ Invoked("plot_probability")
           /\ Len(last.handed.observed) = Len(extremes.rows)
           /\ Len(last.handed.theoretical) = Len(extremes.rows)
           /\ \A i \in 1..Len(extremes.rows) :
                  LET row == ObservedTable[i]
                      low == extremes_transformer.extremes_type = "low"
                      top == MaxV(extremes_transformer.extremes.rows)
                  IN  /\ row.v = extremes.rows[i].v
                      /\ IF last.args.plot_type = "PP"
                         THEN /\ last.handed.observed[i] =
                                    Frac(row.p.den - row.p.num, row.p.den)
                              /\ last.handed.theoretical[i] =
                                    [of |-> "cdf", distribution |-> model.distribution,
                                     x |-> IF low THEN 2 * top - row.v ELSE row.v]
                         ELSE /\ last.handed.observed[i] = extremes.rows[i].v
                              /\ last.handed.theoretical[i] =
                                    LET q == [of |-> "isf",
                                              distribution |-> model.distribution,
                                              p |-> row.p]
                                    IN  IF low
                                        THEN [of |-> "mirror", about |-> top, y |-> q]
                                        ELSE q

(* A PP plot of low extremes: the model's cdf was asked at the mirrored    *)
(* values, which differ from the observed ones.                            *)
C19_Witness ==
    /\ last.op = "plot_probability"
    /\ last.raised = NoError
    /\ last.args.plot_type = "PP"
    /\ extremes_type = Str("low")
    /\ Len(extremes.rows) >= 2
    /\ \E i \in 1..Len(extremes.rows) :
           last.handed.theoretical[i].x # extremes.rows[i].v

(* C20: a fit_model call that raises, for want of an extraction, for an   *)
(* incompatible distribution or because get_model raised, changes no       *)
(* attribute of the pipeline: a model fitted earlier and its model_kwargs  *)
(* stay as they were.                                                      *)
C20_FailedFitChangesNothing ==
    [][ (last'.op = "fit_model" /\ last'.raised # NoError) =>
            UNCHANGED <<data, extremes, extremes_method, extremes_type,
                        extremes_kwargs, extremes_transformer, model,
                        model_kwargs>> ]_vars

(* get_model raised on a pipeline that held a fitted model, and the model  *)
(* is still held.                                                          *)
C20_Witness ==
    /\ last.op = "fit_model"
    /\ last.raised = Raise("FitError", "")
    /\ last.had_model
    /\ model # None
    /\ model_kwargs # None

(* The stored transformer is the one of the extraction now stored: the     *)
(* latest get_extremes call to pass the collaborator also built it.        *)
LatestExtractionComplete ==
    /\ extremes # None
    /\ extremes_transformer =
           ExtremesTransformer(extremes, extremes_method.s, extremes_type.s)

(* C21: after every step model is None exactly when model_kwargs is None,  *)
(* and a model is held only with an extraction result; a model comes to be *)
(* held only by a fit_model that returns normally, called on the pipeline  *)
(* as a get_extremes that returned normally left it, no other extraction   *)
(* having come between.                                                    *)
C21_FittedOnlyAfterExtraction ==
    [][ /\ (model' = None) <=> (model_kwargs' = None)
        /\ model' # None => extremes' # None
        /\ (model = None /\ model' # None) =>
               /\ last'.op = "fit_model"
               /\ last'.raised = NoError
               /\ LatestExtractionComplete ]_vars

(* C22: a get_extremes call in which the extraction collaborator raises,   *)
(* as for POT without a threshold, changes no attribute of the pipeline:   *)
(* the earlier extremes, method, type, kwargs, transformer, model and      *)
(* model_kwargs are all as they were.                                      *)
C22_FailedExtractionChangesNothing ==
    [][ ( /\ last'.op = "get_extremes"
          /\ get_extremes(last'.args.method, data, last'.args.extremes_type,
                          last'.args.kwargs).raised # NoError )
            => /\ last'.raised = get_extremes(last'.args.method, data,
                                              last'.args.extremes_type,
                                              last'.args.kwargs).raised
               /\ UNCHANGED <<data, extremes, extremes_method, extremes_type,
                              extremes_kwargs, extremes_transformer, model,
                              model_kwargs>> ]_vars

(* A POT extraction without a threshold was refused on a fitted BM         *)
(* pipeline, which still holds its extraction and its model.               *)
C22_Witness ==
    /\ last.op = "get_extremes"
    /\ last.args.method = "POT"
    /\ ~Has(last.args.kwargs, "threshold")
    /\ last.raised = Raise("TypeError", "")
    /\ extremes_method = Str("BM")
    /\ extremes_transformer # None
    /\ model # None

(* C23: in every state, also one left by a get_extremes call that raised   *)
(* partway, extremes, extremes_method, extremes_type, extremes_kwargs and  *)
(* extremes_transformer are all None or none of them is, and when held     *)
(* they are those of one get_extremes call: the extremes are the           *)
(* collaborator's result for the stored method, type and kwargs, and the   *)
(* transformer is the one built from them.                                 *)
C23_ExtractionFieldsTogether ==
    LET fields == {extremes, extremes_method, extremes_type, extremes_kwargs,
                   extremes_transformer}
    IN  /\ (fields = {None}) \/ (None \notin fields)
        /\ None \notin fields =>
               /\ extremes = get_extremes(extremes_method.s, data, extremes_type.s,
                                          extremes_kwargs).value
               /\ extremes_transformer =
                      ExtremesTransformer(extremes, extremes_method.s,
                                          extremes_type.s)

(* C24: get_return_value, get_summary, plot_probability and __repr__,      *)
(* returning or raising, change no attribute of the pipeline, and no call  *)
(* made after construction changes the stored signal.                      *)
C24_QueriesChangeNothing ==
    [][ /\ data' = data
        /\ last'.op \in {"get_return_value", "get_summary", "plot_probability",
                         "__repr__"}
             => UNCHANGED <<extremes, extremes_method, extremes_type,
                            extremes_kwargs, extremes_transformer, model,
                            model_kwargs>> ]_vars

(* plot_probability found no block_size in the kwargs of a fitted          *)
(* extraction, drew the plot, and the kwargs still hold none.              *)
C24_Witness ==
    /\ last.op = "plot_probability"
    /\ last.raised = NoError
    /\ model # None
    /\ extremes_kwargs # None
    /\ ~Has(extremes_kwargs, "block_size")

=============================================================================
